---- MODULE Spec2Model ----
(***************************************************************************)
(* Model of the connection lifecycle manager of kim_scanner (src/lib.rs):  *)
(* Scanner::new, send_message, start and the three mode routines           *)
(* start_network_server, start_network_client and start_serial.            *)
(*                                                                         *)
(* Tasks are the tokio tasks of the code: one supervising task per         *)
(* successful start() call, one reader task and one writer task per        *)
(* network session, and the callers of send_message.  Tasks run in         *)
(* parallel; a step of the model is the code of one task between two       *)
(* .await points.  JoinHandle::abort only requests cancellation: the       *)
(* aborted task stops at the next .await at which it suspends, so a        *)
(* writer that is being polled when abort() is called goes on until then.  *)
(* A write is recorded by the success of the write call, not by the byte   *)
(* count it returns (the code ignores the count).                          *)
(***************************************************************************)
EXTENDS Integers, Sequences, FiniteSets, TLC

(***************************************************************************)
(* Bounds of the model.                                                    *)
(***************************************************************************)
\* start() calls made on the manager and its clones
MaxStarts == 1
\* send_message calls made by the callers, and commands the writers dequeue
MaxCmds == 2

\* the start() calls
Starts == 1..MaxStarts
\* the connections established over the life of the manager, in order
Sessions == {1, 2}
\* the tasks calling send_message
Producers == {1, 2}

(***************************************************************************)
(* Program constants.                                                      *)
(***************************************************************************)
\* mpsc::channel::<String>(100)
Capacity == 100
\* tokio::time::sleep(Duration::from_secs(3))
RetryDelaySecs == 3

(***************************************************************************)
(* Strings are sequences of one-character strings.                         *)
(***************************************************************************)
UpperCase == <<"A","B","C","D","E","F","G","H","I","J","K","L","M",
               "N","O","P","Q","R","S","T","U","V","W","X","Y","Z">>
LowerCase == <<"a","b","c","d","e","f","g","h","i","j","k","l","m",
               "n","o","p","q","r","s","t","u","v","w","x","y","z">>
Digits == <<"0","1","2","3","4","5","6","7","8","9">>

Range(f) == {f[i] : i \in DOMAIN f}

\* char::to_lowercase on ASCII
LowerChar(c) ==
    IF c \in Range(UpperCase)
    THEN LowerCase[CHOOSE i \in DOMAIN UpperCase : UpperCase[i] = c]
    ELSE c

\* str::to_lowercase
to_lowercase(s) == [i \in DOMAIN s |-> LowerChar(s[i])]

\* str::starts_with
starts_with(s, p) == Len(s) >= Len(p) /\ SubSeq(s, 1, Len(p)) = p

DigitVal(c) == (CHOOSE i \in DOMAIN Digits : Digits[i] = c) - 1

RECURSIVE Split(_, _)
\* the text cut at every occurrence of the separator (empty pieces kept)
Split(s, sep) ==
    IF \A i \in DOMAIN s : s[i] # sep
    THEN <<s>>
    ELSE LET k == CHOOSE i \in DOMAIN s :
                     s[i] = sep /\ \A j \in 1..(i - 1) : s[j] # sep
         IN  <<SubSeq(s, 1, k - 1)>> \o Split(SubSeq(s, k + 1, Len(s)), sep)

RECURSIVE DecValue(_)
DecValue(s) ==
    IF s = <<>> THEN 0
    ELSE 10 * DecValue(SubSeq(s, 1, Len(s) - 1)) + DigitVal(s[Len(s)])

\* one octet of a dotted quad: 1 to 3 decimal digits, no leading zero, at most 255
IsOctet(s) ==
    /\ Len(s) \in 1..3
    /\ \A i \in DOMAIN s : s[i] \in Range(Digits)
    /\ (Len(s) > 1 => s[1] # "0")
    /\ DecValue(s) <= 255

\* Ipv4Addr::from_str(ip).is_ok()
Ipv4FromStrOk(s) ==
    LET parts == Split(s, ".")
    IN  Len(parts) = 4 /\ \A i \in 1..4 : IsOctet(parts[i])

(***************************************************************************)
(* Transport descriptors: Connector::Serial(name) and                      *)
(* Connector::Network(ip, is_server).                                      *)
(***************************************************************************)
SerialNames ==
    { <<"C","O","M","1">>, <<"c","o","m","3">>, <<"C","o","m">>,
      <<"C","O">>, <<>>, <<"t","t","y","S","0">>, <<"X","C","O","M","1">> }

NetworkIps ==
    { <<"1","2","7",".","0",".","0",".","1">>,
      <<"2","5","6",".","0",".","0",".","1">>,
      <<"1",".","2",".","3">>,
      <<"1",".","2",".","3",".","4",".","5">>,
      <<"0","1",".","2",".","3",".","4">>,
      <<"1",".",".","2",".","3">>,
      <<"a",".","b",".","c",".","d">>,
      <<":",":","1">>,
      <<>> }

Connectors ==
    [kind : {"Serial"}, name : SerialNames, ip : {<<>>}, is_server : {FALSE}]
    \cup
    [kind : {"Network"}, name : {<<>>}, ip : NetworkIps, is_server : BOOLEAN]

\* variant: only the first two characters of the prefix are compared
SerialNameOk_short(c) == starts_with(to_lowercase(c.name), <<"c","o">>)

\* variant: only one-digit octets are accepted
NetworkIpOk_octets(c) ==
    LET parts == Split(c.ip, ".")
    IN  Len(parts) = 4 /\ \A i \in 1..4 : IsOctet(parts[i]) /\ Len(parts[i]) = 1

\* the two validation tests of start()
SerialNameOk(c) == starts_with(to_lowercase(c.name), <<"c","o","m">>)
NetworkIpOk(c) == Ipv4FromStrOk(c.ip)
VARIABLES
    connector,    \* Scanner.connector
    startRes,     \* value returned by each start() call ("none" before the call)
    spc,          \* position of each supervising task
    ssess,        \* session the supervising task is awaiting (0: none)
    slast,        \* last step of a serial supervising task
    sleptSecs,    \* length of the last sleep of a serial supervising task
    sres,         \* value the mode routine returned at the end of the last session of the task
    ioAttempted,  \* some open/bind/accept/connect was attempted
    chan,         \* content of the mpsc channel, oldest first
    nextId,       \* number given to the next command entering the channel
    target,       \* per command: the session awaited when it was enqueued (0: a session was active)
    budget,       \* send_message calls the callers still make
    ppc,          \* position of each send_message caller
    senderLocked, \* Scanner.sender mutex
    sendRes,      \* result of the last send_message call of each caller
    sendWaited,   \* the last send of the caller was suspended on a full channel
    rxLocked,     \* Scanner.receiver mutex
    nsess,        \* connections established so far
    owner,        \* supervising task of each session
    rpc,          \* position of each read_handle task
    wpc,          \* position of each write_handle task
    wcmd,         \* command a write_handle task has dequeued and is writing (0: none)
    wabort,       \* abort() was called on the write_handle task and it has not yet stopped
    wire,         \* commands written to the connections, in time order
    lastRead      \* the last read of N > 0 bytes and the barcode events logged for it

vars == <<connector, startRes, spc, ssess, slast, sleptSecs, ioAttempted,
          chan, nextId, target, budget, ppc, senderLocked, sendRes, sendWaited,
          rxLocked, nsess, owner, rpc, wpc, wcmd, wabort, wire, sres, lastRead>>

supVars == <<spc, ssess, slast, sleptSecs, sres>>
startVars == <<connector, startRes>>
chanVars == <<chan, nextId, target>>
prodVars == <<budget, ppc, senderLocked, sendRes, sendWaited>>
sessVars == <<nsess, owner, rpc, wpc, wcmd, wabort, rxLocked, wire>>

(***************************************************************************)
(* The bytes of one read, as a sequence of characters, and the barcode     *)
(* events (the "接收条码" log lines) the reader loops make of them.         *)
(***************************************************************************)
CR == "\r"
LF == "\n"

\* the reads of N > 0 bytes the devices deliver
Chunks == { <<"A","B","C",CR,LF>>, <<"X",CR,LF,"Y",CR,LF>>, <<"A","B">> }

NoRead == [by |-> "none", text |-> <<>>, events |-> <<>>]

\* str::split(&['\r', '\n'][..]): the segments between separators, empty ones too
RECURSIVE split_any(_, _)
split_any(s, seps) ==
    LET at == {k \in 1..Len(s) : s[k] \in seps}
    IN  IF at = {}
        THEN <<s>>
        ELSE LET k == CHOOSE m \in at : \A n \in at : m <= n
             IN  <<SubSeq(s, 1, k - 1)>> \o split_any(SubSeq(s, k + 1, Len(s)), seps)

\* the serial loop: one event for each segment with barcode.len() > 0
serial_barcodes(text) == SelectSeq(split_any(text, {CR, LF}), LAMBDA b : Len(b) > 0)

\* the network loops: one event with the whole text of the read
network_barcodes(text) == <<text>>

\* Scanner::new followed by n send_message calls that have returned
InitWith(c, n) ==
    /\ connector = c
    /\ startRes = [i \in Starts |-> "none"]
    /\ spc = [i \in Starts |-> "unspawned"]
    /\ ssess = [i \in Starts |-> 0]
    /\ slast = [i \in Starts |-> "none"]
    /\ sleptSecs = [i \in Starts |-> 0]
    /\ sres = [i \in Starts |-> "none"]
    /\ ioAttempted = FALSE
    /\ chan = [k \in 1..n |-> k]
    /\ nextId = n + 1
    /\ target = [k \in 1..n |-> 1]
    /\ budget = MaxCmds
    /\ ppc = [p \in Producers |-> "idle"]
    /\ senderLocked = FALSE
    /\ sendRes = [p \in Producers |-> "none"]
    /\ sendWaited = [p \in Producers |-> FALSE]
    /\ rxLocked = FALSE
    /\ nsess = 0
    /\ owner = [s \in Sessions |-> 0]
    /\ rpc = [s \in Sessions |-> "none"]
    /\ wpc = [s \in Sessions |-> "none"]
    /\ wcmd = [s \in Sessions |-> 0]
    /\ wabort = [s \in Sessions |-> FALSE]
    /\ wire = <<>>
    /\ lastRead = NoRead

\* the state after construction
Init == \E c \in Connectors : InitWith(c, 0)

\* the state after construction and Capacity - 1 accepted commands, before start()
InitBackpressure == \E c \in Connectors : InitWith(c, Capacity - 1)

\* the state after construction and Capacity accepted commands, before start()
InitFull == \E c \in Connectors : InitWith(c, Capacity)

(***************************************************************************)
(* Scanner::start.  The function has no .await before it returns, so one   *)
(* call is one step: validation, then (valid descriptor) the spawn of the  *)
(* supervising task and the return of Ok(Ok(())).                          *)
(***************************************************************************)
start(i) ==
    /\ startRes[i] = "none"
    /\ \A j \in Starts : j < i => startRes[j] # "none"
    /\ IF connector.kind = "Serial"
       THEN IF ~SerialNameOk(connector)
            THEN /\ startRes' = [startRes EXCEPT ![i] = "ErrParam"]
                 /\ UNCHANGED <<spc, slast>>
            ELSE /\ spc' = [spc EXCEPT ![i] = "loop"]
                 /\ slast' = [slast EXCEPT ![i] = "spawn"]
                 /\ startRes' = [startRes EXCEPT ![i] = "OkOk"]
       ELSE IF ~NetworkIpOk(connector)
            THEN /\ startRes' = [startRes EXCEPT ![i] = "ErrParam"]
                 /\ UNCHANGED <<spc, slast>>
            ELSE /\ spc' = [spc EXCEPT ![i] = "loop"]
                 /\ slast' = [slast EXCEPT ![i] = "spawn"]
                 /\ startRes' = [startRes EXCEPT ![i] = "OkOk"]
    /\ UNCHANGED <<connector, ssess, sleptSecs, sres, ioAttempted>>
    /\ UNCHANGED <<chanVars, prodVars, sessVars>>
    /\ UNCHANGED lastRead

(***************************************************************************)
(* Scanner::send_message: lock the sender mutex, send into the channel     *)
(* (suspended while the channel is full), return Ok(Ok(())).  The receiver *)
(* lives as long as the Scanner, so the send never fails.                  *)
(***************************************************************************)
SessionActive == \E i \in Starts : spc[i] = "session"

\* the channel is closed when its Receiver is dropped or closed: the Receiver
\* is a field of the Scanner that send_message borrows, and the code never
\* calls Receiver::close
ReceiverDropped == FALSE

\* callers are interchangeable: the next call is made by the first idle one
send_message_call(p) ==
    /\ ppc[p] = "idle"
    /\ \A q \in Producers : q < p => ppc[q] # "idle"
    /\ budget > 0
    /\ budget' = budget - 1
    /\ ppc' = [ppc EXCEPT ![p] = "lock"]
    /\ sendRes' = [sendRes EXCEPT ![p] = "none"]
    /\ sendWaited' = [sendWaited EXCEPT ![p] = FALSE]
    /\ UNCHANGED <<senderLocked, startVars, supVars, ioAttempted, chanVars, sessVars>>
    /\ UNCHANGED lastRead

\* self.sender.lock().await completes
send_message_lock(p) ==
    /\ ppc[p] = "lock"
    /\ ~senderLocked
    /\ senderLocked' = TRUE
    /\ ppc' = [ppc EXCEPT ![p] = "send"]
    /\ UNCHANGED <<budget, sendRes, sendWaited, startVars, supVars, ioAttempted,
                   chanVars, sessVars>>
    /\ UNCHANGED lastRead

\* variant: the command is put at the front of the channel
send_message_send_front(p) ==
    /\ ppc[p] \in {"send", "full"}
    /\ Len(chan) < Capacity
    /\ chan' = <<nextId>> \o chan
    /\ nextId' = nextId + 1
    /\ target' = Append(target, IF SessionActive THEN 0 ELSE nsess + 1)
    /\ senderLocked' = FALSE
    /\ ppc' = [ppc EXCEPT ![p] = "idle"]
    /\ sendRes' = [sendRes EXCEPT ![p] = "OkOk"]
    /\ sendWaited' = [sendWaited EXCEPT ![p] = (ppc[p] = "full")]
    /\ UNCHANGED <<budget, startVars, supVars, ioAttempted, sessVars>>
    /\ UNCHANGED lastRead

\* variant: try_send, a full channel makes the call return at once
send_message_try_send(p) ==
    /\ ppc[p] \in {"send", "full"}
    /\ IF Len(chan) < Capacity
       THEN /\ chan' = Append(chan, nextId)
            /\ nextId' = nextId + 1
            /\ target' = Append(target, IF SessionActive THEN 0 ELSE nsess + 1)
       ELSE UNCHANGED chanVars
    /\ senderLocked' = FALSE
    /\ ppc' = [ppc EXCEPT ![p] = "idle"]
    /\ sendRes' = [sendRes EXCEPT ![p] = "OkOk"]
    /\ sendWaited' = [sendWaited EXCEPT ![p] = (ppc[p] = "full")]
    /\ UNCHANGED <<budget, startVars, supVars, ioAttempted, sessVars>>
    /\ UNCHANGED lastRead

\* variant: the caller suspended on a full channel gives the sender guard back
send_message_send_unlocked(p) ==
    /\ ppc[p] \in {"send", "full"}
    /\ IF Len(chan) < Capacity
       THEN /\ chan' = Append(chan, nextId)
            /\ nextId' = nextId + 1
            /\ target' = Append(target, IF SessionActive THEN 0 ELSE nsess + 1)
            /\ senderLocked' = FALSE
            /\ ppc' = [ppc EXCEPT ![p] = "idle"]
            /\ sendRes' = [sendRes EXCEPT ![p] = "OkOk"]
            /\ sendWaited' = [sendWaited EXCEPT ![p] = (ppc[p] = "full")]
       ELSE /\ ppc[p] = "send"
            /\ ppc' = [ppc EXCEPT ![p] = "full"]
            /\ senderLocked' = FALSE
            /\ UNCHANGED <<chanVars, sendRes, sendWaited>>
    /\ UNCHANGED <<budget, startVars, supVars, ioAttempted, sessVars>>
    /\ UNCHANGED lastRead

\* variant: without an active session the call returns the Comm error
send_message_send_nosession(p) ==
    /\ ppc[p] \in {"send", "full"}
    /\ IF ~SessionActive
       THEN /\ senderLocked' = FALSE
            /\ ppc' = [ppc EXCEPT ![p] = "idle"]
            /\ sendRes' = [sendRes EXCEPT ![p] = "ErrComm"]
            /\ UNCHANGED <<chanVars, sendWaited>>
       ELSE IF Len(chan) < Capacity
       THEN /\ chan' = Append(chan, nextId)
            /\ nextId' = nextId + 1
            /\ target' = Append(target, IF SessionActive THEN 0 ELSE nsess + 1)
            /\ senderLocked' = FALSE
            /\ ppc' = [ppc EXCEPT ![p] = "idle"]
            /\ sendRes' = [sendRes EXCEPT ![p] = "OkOk"]
            /\ sendWaited' = [sendWaited EXCEPT ![p] = (ppc[p] = "full")]
       ELSE /\ ppc[p] = "send"
            /\ ppc' = [ppc EXCEPT ![p] = "full"]
            /\ UNCHANGED <<chanVars, senderLocked, sendRes, sendWaited>>
    /\ UNCHANGED <<budget, startVars, supVars, ioAttempted, sessVars>>
    /\ UNCHANGED lastRead

\* one poll of sender.send(cmd): with a free slot the command enters the
\* channel, the guard is dropped and the call returns; with none the caller
\* is suspended, still holding the guard; with the channel closed the call
\* returns Err(Comm) and the command is dropped with the error
send_message_send(p) ==
    /\ ppc[p] \in {"send", "full"}
    /\ IF ReceiverDropped
       THEN /\ senderLocked' = FALSE
            /\ ppc' = [ppc EXCEPT ![p] = "idle"]
            /\ sendRes' = [sendRes EXCEPT ![p] = "ErrComm"]
            /\ UNCHANGED <<chanVars, sendWaited>>
       ELSE IF Len(chan) < Capacity
       THEN /\ chan' = Append(chan, nextId)
            /\ nextId' = nextId + 1
            /\ target' = Append(target, IF SessionActive THEN 0 ELSE nsess + 1)
            /\ senderLocked' = FALSE
            /\ ppc' = [ppc EXCEPT ![p] = "idle"]
            /\ sendRes' = [sendRes EXCEPT ![p] = "OkOk"]
            /\ sendWaited' = [sendWaited EXCEPT ![p] = (ppc[p] = "full")]
       ELSE /\ ppc[p] = "send"
            /\ ppc' = [ppc EXCEPT ![p] = "full"]
            /\ UNCHANGED <<chanVars, senderLocked, sendRes, sendWaited>>
    /\ UNCHANGED <<budget, startVars, supVars, ioAttempted, sessVars>>
    /\ UNCHANGED lastRead

(***************************************************************************)
(* The network supervising loop of start() with start_network_server and   *)
(* start_network_client.                                                   *)
(***************************************************************************)
IsServer == connector.kind = "Network" /\ connector.is_server
IsClient == connector.kind = "Network" /\ ~connector.is_server

\* supervising tasks at the top of the network loop are interchangeable:
\* the next bind or connect is made by the first of them
FirstAtLoop(i) == \A j \in Starts : j < i => spc[j] # "loop"

\* into_split and the two tokio::spawn calls
SpawnSession(i) ==
    /\ nsess + 1 \in Sessions
    /\ nsess' = nsess + 1
    /\ owner' = [owner EXCEPT ![nsess + 1] = i]
    /\ rpc' = [rpc EXCEPT ![nsess + 1] = "reading"]
    /\ wpc' = [wpc EXCEPT ![nsess + 1] = "lock"]
    /\ spc' = [spc EXCEPT ![i] = "session"]
    /\ ssess' = [ssess EXCEPT ![i] = nsess + 1]
    /\ UNCHANGED <<wcmd, wabort, rxLocked, wire>>

\* variant: the listener of the first iteration is never released
start_network_server_bind_ok_once(i) ==
    /\ FirstAtLoop(i)
    /\ IsServer
    /\ spc[i] = "loop"
    /\ nsess = 0
    /\ \A j \in Starts : spc[j] \notin {"accept", "session"}
    /\ spc' = [spc EXCEPT ![i] = "accept"]
    /\ ioAttempted' = TRUE
    /\ UNCHANGED <<ssess, slast, sleptSecs, sres, startVars, chanVars, prodVars, sessVars>>
    /\ UNCHANGED lastRead

\* TcpListener::bind succeeds: one listener per address
start_network_server_bind_ok(i) ==
    /\ FirstAtLoop(i)
    /\ IsServer
    /\ spc[i] = "loop"
    /\ \A j \in Starts : spc[j] \notin {"accept", "session"}
    /\ spc' = [spc EXCEPT ![i] = "accept"]
    /\ ioAttempted' = TRUE
    /\ UNCHANGED <<ssess, slast, sleptSecs, sres, startVars, chanVars, prodVars, sessVars>>
    /\ UNCHANGED lastRead

\* TcpListener::bind fails: return Ok(Err(Io)), the loop goes round
start_network_server_bind_err(i) ==
    /\ FirstAtLoop(i)
    /\ IsServer
    /\ spc[i] = "loop"
    /\ ioAttempted' = TRUE
    /\ UNCHANGED <<supVars, startVars, chanVars, prodVars, sessVars>>
    /\ UNCHANGED lastRead

start_network_server_accept_ok(i) ==
    /\ IsServer
    /\ spc[i] = "accept"
    /\ SpawnSession(i)
    /\ UNCHANGED <<slast, sleptSecs, sres, ioAttempted, startVars, chanVars, prodVars>>
    /\ UNCHANGED lastRead

\* server.accept fails: return Err(Comm), the loop breaks
start_network_server_accept_err(i) ==
    /\ IsServer
    /\ spc[i] = "accept"
    /\ spc' = [spc EXCEPT ![i] = "dead"]
    /\ UNCHANGED <<ssess, slast, sleptSecs, sres, ioAttempted, startVars, chanVars,
                   prodVars, sessVars>>
    /\ UNCHANGED lastRead

start_network_client_connect_ok(i) ==
    /\ FirstAtLoop(i)
    /\ IsClient
    /\ spc[i] = "loop"
    /\ SpawnSession(i)
    /\ ioAttempted' = TRUE
    /\ UNCHANGED <<slast, sleptSecs, sres, startVars, chanVars, prodVars>>
    /\ UNCHANGED lastRead

\* variant: a failed connect is returned as the fatal error
start_network_client_connect_err_fatal(i) ==
    /\ FirstAtLoop(i)
    /\ IsClient
    /\ spc[i] = "loop"
    /\ spc' = [spc EXCEPT ![i] = "dead"]
    /\ ioAttempted' = TRUE
    /\ UNCHANGED <<ssess, slast, sleptSecs, sres, startVars, chanVars, prodVars, sessVars>>
    /\ UNCHANGED lastRead

\* TcpStream::connect fails: return Ok(Err(Comm)), the loop goes round
start_network_client_connect_err(i) ==
    /\ FirstAtLoop(i)
    /\ IsClient
    /\ spc[i] = "loop"
    /\ ioAttempted' = TRUE
    /\ UNCHANGED <<supVars, startVars, chanVars, prodVars, sessVars>>
    /\ UNCHANGED lastRead

(***************************************************************************)
(* read_handle: the reader loop ends on a zero-byte read or a read error.  *)
(***************************************************************************)
read_handle_zero(s) ==
    /\ rpc[s] = "reading"
    /\ rpc' = [rpc EXCEPT ![s] = "zero"]
    /\ UNCHANGED <<nsess, owner, wpc, wcmd, wabort, rxLocked, wire>>
    /\ UNCHANGED <<startVars, supVars, ioAttempted, chanVars, prodVars>>
    /\ UNCHANGED lastRead

read_handle_err(s) ==
    /\ rpc[s] = "reading"
    /\ rpc' = [rpc EXCEPT ![s] = "error"]
    /\ UNCHANGED <<nsess, owner, wpc, wcmd, wabort, rxLocked, wire>>
    /\ UNCHANGED <<startVars, supVars, ioAttempted, chanVars, prodVars>>
    /\ UNCHANGED lastRead

\* Ok(n), n > 0: the text is logged and the loop goes round
read_handle_data(s, text) ==
    /\ rpc[s] = "reading"
    /\ lastRead' = [by |-> "network", text |-> text,
                    events |-> network_barcodes(text)]
    /\ UNCHANGED <<startVars, supVars, ioAttempted, chanVars, prodVars, sessVars>>

(***************************************************************************)
(* write_handle: lock the receiver mutex, then dequeue and write in a      *)
(* loop; a write error breaks the loop and drops the guard.                *)
(***************************************************************************)
WriterLive(s) == wpc[s] \in {"lock", "recv", "write"}
HoldsReceiver(s) == wpc[s] \in {"recv", "write"}

\* variant: the writer does not wait for the receiver mutex
write_handle_lock_nowait(s) ==
    /\ wpc[s] = "lock"
    /\ rxLocked' = TRUE
    /\ wpc' = [wpc EXCEPT ![s] = "recv"]
    /\ UNCHANGED <<nsess, owner, rpc, wcmd, wabort, wire>>
    /\ UNCHANGED <<startVars, supVars, ioAttempted, chanVars, prodVars>>
    /\ UNCHANGED lastRead

write_handle_lock(s) ==
    /\ wpc[s] = "lock"
    /\ ~rxLocked
    /\ rxLocked' = TRUE
    /\ wpc' = [wpc EXCEPT ![s] = "recv"]
    /\ UNCHANGED <<nsess, owner, rpc, wcmd, wabort, wire>>
    /\ UNCHANGED <<startVars, supVars, ioAttempted, chanVars, prodVars>>
    /\ UNCHANGED lastRead

\* commands taken out of the channel so far
Dequeued == nextId - 1 - Len(chan)

\* variant: the newest command is taken instead of the oldest
write_handle_recv_last(s) ==
    /\ wpc[s] = "recv"
    /\ chan # <<>>
    /\ Dequeued < MaxCmds
    /\ wcmd' = [wcmd EXCEPT ![s] = chan[Len(chan)]]
    /\ chan' = SubSeq(chan, 1, Len(chan) - 1)
    /\ wpc' = [wpc EXCEPT ![s] = "write"]
    /\ UNCHANGED <<nextId, target, nsess, owner, rpc, wabort, rxLocked, wire>>
    /\ UNCHANGED <<startVars, supVars, ioAttempted, prodVars>>
    /\ UNCHANGED lastRead

\* variant: the oldest command is read but stays in the channel
write_handle_recv_peek(s) ==
    /\ wpc[s] = "recv"
    /\ chan # <<>>
    /\ Dequeued < MaxCmds
    /\ wcmd' = [wcmd EXCEPT ![s] = Head(chan)]
    /\ wpc' = [wpc EXCEPT ![s] = "write"]
    /\ UNCHANGED <<chan, nextId, target, nsess, owner, rpc, wabort, rxLocked, wire>>
    /\ UNCHANGED <<startVars, supVars, ioAttempted, prodVars>>
    /\ UNCHANGED lastRead

write_handle_recv(s) ==
    /\ wpc[s] = "recv"
    /\ chan # <<>>
    /\ Dequeued < MaxCmds
    /\ wcmd' = [wcmd EXCEPT ![s] = Head(chan)]
    /\ chan' = Tail(chan)
    /\ wpc' = [wpc EXCEPT ![s] = "write"]
    /\ UNCHANGED <<nextId, target, nsess, owner, rpc, wabort, rxLocked, wire>>
    /\ UNCHANGED <<startVars, supVars, ioAttempted, prodVars>>
    /\ UNCHANGED lastRead

write_handle_write_ok(s) ==
    /\ wpc[s] = "write"
    /\ wire' = Append(wire, [sess |-> s, id |-> wcmd[s]])
    /\ wcmd' = [wcmd EXCEPT ![s] = 0]
    /\ wpc' = [wpc EXCEPT ![s] = "recv"]
    /\ UNCHANGED <<nsess, owner, rpc, wabort, rxLocked>>
    /\ UNCHANGED <<startVars, supVars, ioAttempted, chanVars, prodVars>>
    /\ UNCHANGED lastRead

\* variant: the writer that stops on a write error keeps the receiver guard
write_handle_write_err_keeps_guard(s) ==
    /\ wpc[s] = "write"
    /\ wcmd' = [wcmd EXCEPT ![s] = 0]
    /\ wpc' = [wpc EXCEPT ![s] = "stopped"]
    /\ wabort' = [wabort EXCEPT ![s] = FALSE]
    /\ UNCHANGED <<nsess, owner, rpc, rxLocked, wire>>
    /\ UNCHANGED <<startVars, supVars, ioAttempted, chanVars, prodVars>>
    /\ UNCHANGED lastRead

\* variant: a write error also ends the reader of the session
write_handle_write_err_ends_reader(s) ==
    /\ wpc[s] = "write"
    /\ wcmd' = [wcmd EXCEPT ![s] = 0]
    /\ wpc' = [wpc EXCEPT ![s] = "stopped"]
    /\ wabort' = [wabort EXCEPT ![s] = FALSE]
    /\ rxLocked' = FALSE
    /\ rpc' = [rpc EXCEPT ![s] = IF rpc[s] = "reading" THEN "error" ELSE rpc[s]]
    /\ UNCHANGED <<nsess, owner, wire>>
    /\ UNCHANGED <<startVars, supVars, ioAttempted, chanVars, prodVars>>
    /\ UNCHANGED lastRead

write_handle_write_err(s) ==
    /\ wpc[s] = "write"
    /\ wcmd' = [wcmd EXCEPT ![s] = 0]
    /\ wpc' = [wpc EXCEPT ![s] = "stopped"]
    /\ wabort' = [wabort EXCEPT ![s] = FALSE]
    /\ rxLocked' = FALSE
    /\ UNCHANGED <<nsess, owner, rpc, wire>>
    /\ UNCHANGED <<startVars, supVars, ioAttempted, chanVars, prodVars>>
    /\ UNCHANGED lastRead

\* the aborted task is dropped at the .await where it is suspended: the
\* guard is released and a command it had dequeued is dropped with it
write_handle_cancelled(s) ==
    /\ wabort[s]
    /\ WriterLive(s)
    /\ wpc' = [wpc EXCEPT ![s] = "stopped"]
    /\ wcmd' = [wcmd EXCEPT ![s] = 0]
    /\ wabort' = [wabort EXCEPT ![s] = FALSE]
    /\ rxLocked' = IF HoldsReceiver(s) THEN FALSE ELSE rxLocked
    /\ UNCHANGED <<nsess, owner, rpc, wire>>
    /\ UNCHANGED <<startVars, supVars, ioAttempted, chanVars, prodVars>>
    /\ UNCHANGED lastRead

(***************************************************************************)
(* The tail of the session function: read_handle.await completes,          *)
(* write_handle.abort() is called, Ok(Ok(())) is returned and the          *)
(* supervising loop goes round.                                            *)
(***************************************************************************)
\* variant: the session function returns without awaiting read_handle
session_return_nojoin(i) ==
    /\ spc[i] = "session"
    /\ wabort' = [wabort EXCEPT ![ssess[i]] = WriterLive(ssess[i])]
    /\ spc' = [spc EXCEPT ![i] = "loop"]
    /\ ssess' = [ssess EXCEPT ![i] = 0]
    /\ sres' = [sres EXCEPT ![i] = "OkOk"]
    /\ UNCHANGED <<nsess, owner, rpc, wpc, wcmd, rxLocked, wire>>
    /\ UNCHANGED <<slast, sleptSecs, startVars, ioAttempted, chanVars, prodVars>>
    /\ UNCHANGED lastRead

\* variant: a zero-byte read is returned as the fatal error
session_return_zero_fatal(i) ==
    /\ spc[i] = "session"
    /\ rpc[ssess[i]] \in {"zero", "error"}
    /\ wabort' = [wabort EXCEPT ![ssess[i]] = WriterLive(ssess[i])]
    /\ rpc' = [rpc EXCEPT ![ssess[i]] = "joined"]
    /\ spc' = [spc EXCEPT ![i] = IF rpc[ssess[i]] = "zero" THEN "dead" ELSE "loop"]
    /\ ssess' = [ssess EXCEPT ![i] = 0]
    /\ sres' = [sres EXCEPT ![i] = IF rpc[ssess[i]] = "zero" THEN "ErrComm" ELSE "OkOk"]
    /\ UNCHANGED <<nsess, owner, wpc, wcmd, rxLocked, wire>>
    /\ UNCHANGED <<slast, sleptSecs, startVars, ioAttempted, chanVars, prodVars>>
    /\ UNCHANGED lastRead

session_return(i) ==
    /\ spc[i] = "session"
    /\ rpc[ssess[i]] \in {"zero", "error"}
    /\ wabort' = [wabort EXCEPT ![ssess[i]] = WriterLive(ssess[i])]
    /\ rpc' = [rpc EXCEPT ![ssess[i]] = "joined"]
    /\ spc' = [spc EXCEPT ![i] = "loop"]
    /\ ssess' = [ssess EXCEPT ![i] = 0]
    /\ sres' = [sres EXCEPT ![i] = "OkOk"]
    /\ UNCHANGED <<nsess, owner, wpc, wcmd, rxLocked, wire>>
    /\ UNCHANGED <<slast, sleptSecs, startVars, ioAttempted, chanVars, prodVars>>
    /\ UNCHANGED lastRead

(***************************************************************************)
(* The serial supervising loop of start() with start_serial.               *)
(***************************************************************************)
IsSerial == connector.kind = "Serial"

SerialStep(i, from, to, what) ==
    /\ IsSerial
    /\ spc[i] = from
    /\ spc' = [spc EXCEPT ![i] = to]
    /\ slast' = [slast EXCEPT ![i] = what]
    /\ UNCHANGED <<ssess, startVars, chanVars, prodVars, sessVars>>
    /\ UNCHANGED lastRead

\* variant: the serial session spawns a writer task as the network ones do
start_serial_open_ok_writer(i) ==
    /\ IsSerial
    /\ spc[i] = "loop"
    /\ spc' = [spc EXCEPT ![i] = "reading"]
    /\ slast' = [slast EXCEPT ![i] = "open_ok"]
    /\ wpc' = [wpc EXCEPT ![1] = "lock"]
    /\ ioAttempted' = TRUE
    /\ UNCHANGED <<nsess, owner, rpc, wcmd, wabort, rxLocked, wire>>
    /\ UNCHANGED <<ssess, sleptSecs, sres, startVars, chanVars, prodVars>>
    /\ UNCHANGED lastRead

start_serial_open_ok(i) ==
    /\ SerialStep(i, "loop", "reading", "open_ok")
    /\ ioAttempted' = TRUE
    /\ UNCHANGED <<sleptSecs, sres>>

\* variant: a failed open restarts the loop without the sleep
start_serial_open_err_nosleep(i) ==
    /\ SerialStep(i, "loop", "loop", "open_err")
    /\ ioAttempted' = TRUE
    /\ UNCHANGED <<sleptSecs, sres>>

\* open_native_async fails: return Ok(Err(Comm))
start_serial_open_err(i) ==
    /\ SerialStep(i, "loop", "sleep", "open_err")
    /\ ioAttempted' = TRUE
    /\ UNCHANGED <<sleptSecs, sres>>

start_serial_read_zero(i) ==
    /\ SerialStep(i, "reading", "sleep", "read_zero")
    /\ sres' = [sres EXCEPT ![i] = "OkOk"]
    /\ UNCHANGED <<ioAttempted, sleptSecs>>

start_serial_read_err(i) ==
    /\ SerialStep(i, "reading", "sleep", "read_err")
    /\ sres' = [sres EXCEPT ![i] = "OkOk"]
    /\ UNCHANGED <<ioAttempted, sleptSecs>>

\* Ok(n), n > 0: the barcodes of the text are logged and the loop goes round
start_serial_read_data(i, text) ==
    /\ IsSerial
    /\ spc[i] = "reading"
    /\ lastRead' = [by |-> "serial", text |-> text,
                    events |-> serial_barcodes(text)]
    /\ UNCHANGED <<startVars, supVars, ioAttempted, chanVars, prodVars, sessVars>>

\* tokio::time::sleep(Duration::from_secs(3)) completes, the loop goes round
serial_sleep(i) ==
    /\ SerialStep(i, "sleep", "loop", "sleep")
    /\ sleptSecs' = [sleptSecs EXCEPT ![i] = RetryDelaySecs]
    /\ UNCHANGED <<ioAttempted, sres>>

Next ==
    \/ \E i \in Starts : start(i)
    \/ \E p \in Producers : send_message_call(p)
    \/ \E p \in Producers : send_message_lock(p)
    \/ \E p \in Producers : send_message_send(p)
    \/ \E i \in Starts : start_network_server_bind_ok(i)
    \/ \E i \in Starts : start_network_server_bind_err(i)
    \/ \E i \in Starts : start_network_server_accept_ok(i)
    \/ \E i \in Starts : start_network_server_accept_err(i)
    \/ \E i \in Starts : start_network_client_connect_ok(i)
    \/ \E i \in Starts : start_network_client_connect_err(i)
    \/ \E s \in Sessions : read_handle_zero(s)
    \/ \E s \in Sessions : read_handle_err(s)
    \/ \E s \in Sessions : write_handle_lock(s)
    \/ \E s \in Sessions : write_handle_recv(s)
    \/ \E s \in Sessions : write_handle_write_ok(s)
    \/ \E s \in Sessions : write_handle_write_err(s)
    \/ \E s \in Sessions : write_handle_cancelled(s)
    \/ \E i \in Starts : session_return(i)
    \/ \E i \in Starts : start_serial_open_ok(i)
    \/ \E i \in Starts : start_serial_open_err(i)
    \/ \E i \in Starts : start_serial_read_zero(i)
    \/ \E i \in Starts : start_serial_read_err(i)
    \/ \E i \in Starts : serial_sleep(i)

Spec == Init /\ [][Next]_vars

(***************************************************************************)
(* A read of N > 0 bytes changes nothing but lastRead, and no step of Next *)
(* depends on lastRead: NextRead adds these reads to the steps of Next.    *)
(***************************************************************************)
NextRead ==
    \/ Next
    \/ \E s \in Sessions, text \in Chunks : read_handle_data(s, text)
    \/ \E i \in Starts, text \in Chunks : start_serial_read_data(i, text)

SpecRead == Init /\ [][NextRead]_vars

(***************************************************************************)
(* Fairness.  The supervising task is a tokio task: once read_handle has   *)
(* finished, the runtime polls it again and the session function returns.  *)
(* The function's return drops the listener (and the halves of the stream  *)
(* go with the two tasks), so the address is free for the next bind: a     *)
(* bind retried without pause eventually succeeds.  Nothing is assumed of  *)
(* the peer: a connection may stay open, an accept may never complete.     *)
(***************************************************************************)
Fairness ==
    \A i \in Starts : /\ WF_vars(session_return(i))
                      /\ WF_vars(start_network_server_bind_ok(i))

SpecFair == Spec /\ Fairness

SpecBackpressure == InitBackpressure /\ [][Next]_vars

SpecFull == InitFull /\ [][Next]_vars

TypeOK ==
    /\ connector \in Connectors
    /\ startRes \in [Starts -> {"none", "OkOk", "ErrParam"}]
    /\ sres \in [Starts -> {"none", "OkOk"}]
    /\ spc \in [Starts -> {"unspawned", "loop", "accept", "session", "reading",
                           "sleep", "dead"}]
    /\ ssess \in [Starts -> 0..Cardinality(Sessions)]
    /\ ioAttempted \in BOOLEAN
    /\ Len(chan) <= Capacity
    /\ budget \in 0..MaxCmds
    /\ target \in [1..(nextId - 1) -> 0..(Cardinality(Sessions) + 1)]
    /\ ppc \in [Producers -> {"idle", "lock", "send", "full"}]
    /\ senderLocked \in BOOLEAN
    /\ rxLocked \in BOOLEAN
    /\ lastRead.by \in {"none", "network", "serial"}
    /\ lastRead.text \in Chunks \cup {<<>>}
    /\ nsess \in 0..Cardinality(Sessions)
    /\ rpc \in [Sessions -> {"none", "reading", "zero", "error", "joined"}]
    /\ wpc \in [Sessions -> {"none", "lock", "recv", "write", "stopped"}]
    /\ wabort \in [Sessions -> BOOLEAN]


(***************************************************************************)
(* The properties.                                                         *)
(***************************************************************************)
\* the descriptors of the input set that fail validation, listed by hand
BadNames == { <<"C","O">>, <<>>, <<"t","t","y","S","0">>, <<"X","C","O","M","1">> }
BadIps ==
    { <<"2","5","6",".","0",".","0",".","1">>,
      <<"1",".","2",".","3">>,
      <<"1",".","2",".","3",".","4",".","5">>,
      <<"0","1",".","2",".","3",".","4">>,
      <<"1",".",".","2",".","3">>,
      <<"a",".","b",".","c",".","d">>,
      <<":",":","1">>,
      <<>> }
BadConnector ==
    \/ connector.kind = "Serial" /\ connector.name \in BadNames
    \/ connector.kind = "Network" /\ connector.ip \in BadIps

WireIds == {wire[k].id : k \in DOMAIN wire}
ChanIds == {chan[k] : k \in DOMAIN chan}
Accepted == 1..(nextId - 1)
\* the session function of session s has returned
Returned(s) == rpc[s] = "joined"
\* some step appends an entry of session s to the wire
WritesOn(s) == Len(wire') > Len(wire) /\ wire'[Len(wire')].sess = s

\* C1: for a descriptor that fails validation (serial name without the
\* case-insensitive prefix "com", IP that is no IPv4 literal) every start()
\* call returns the Parameter error, no supervising task is ever spawned and
\* no open/bind/accept/connect is ever attempted.
C1_InvalidNeverStarts ==
    BadConnector =>
        /\ \A i \in Starts : startRes[i] \in {"none", "ErrParam"}
        /\ \A i \in Starts : spc[i] = "unspawned"
        /\ ~ioAttempted
        /\ nsess = 0

C1_Witness == BadConnector /\ \E i \in Starts : startRes[i] = "ErrParam"

\* C2: for a valid descriptor start() returns Ok(Ok(())) in the step that
\* spawns the supervising task, before any connection attempt of that task,
\* and the value it returned never changes afterwards, whatever fails later.
C2_StartReturnsOk ==
    /\ [](~BadConnector => \A i \in Starts : startRes[i] \in {"none", "OkOk"})
    /\ [][\A i \in Starts :
            /\ startRes[i] # "none" => startRes'[i] = startRes[i]
            /\ (startRes[i] = "none" /\ startRes'[i] = "OkOk") =>
                   /\ spc[i] = "unspawned" /\ spc'[i] = "loop"
                   /\ ioAttempted' = ioAttempted
                   /\ nsess' = nsess]_vars

C2_Witness ==
    /\ ~BadConnector
    /\ \E i \in Starts :
          /\ startRes[i] = "OkOk"
          /\ spc[i] = "dead" \/ \E s \in Sessions : owner[s] = i /\ rpc[s] = "error"

\* session s is over: its function has returned and its writer has stopped
SessionOver(s) == Returned(s) /\ ~WriterLive(s)

\* C3 as claimed: every command enqueued while no session was active is on
\* the wire of the next session established, once that session is over.
C3_AllDeliveredToNextSession ==
    \A id \in Accepted :
        (target[id] \in Sessions /\ SessionOver(target[id])) =>
            \E k \in DOMAIN wire : wire[k] = [sess |-> target[id], id |-> id]

\* C3 as amended: commands enqueued while no session is active stay in the
\* channel, in enqueue order, as long as no writer holds the receiver, and
\* those of them that reach a wire reach it in enqueue order.
C3_IdleCommandsKeepOrder ==
    /\ [](\A a, b \in DOMAIN wire :
            (a < b /\ target[wire[a].id] # 0 /\ target[wire[b].id] # 0) =>
                wire[a].id < wire[b].id)
    /\ [][(\A s \in Sessions : ~HoldsReceiver(s)) =>
            /\ Len(chan') >= Len(chan)
            /\ SubSeq(chan', 1, Len(chan)) = chan
            /\ \A k \in DOMAIN chan' : k > 1 => chan'[k - 1] < chan'[k]]_vars

C3_Witness ==
    /\ Len(wire) >= 2
    /\ target[wire[1].id] = wire[1].sess
    /\ target[wire[2].id] = wire[2].sess
    /\ wire[1].sess = wire[2].sess

\* C4: the commands written to the wire, over all sessions, are written in
\* the order in which they entered the channel.
C4_WireInEnqueueOrder ==
    \A a, b \in DOMAIN wire : a < b => wire[a].id < wire[b].id

C4_Witness == Len(wire) >= 2 /\ wire[1].sess # wire[2].sess

\* C5 as claimed: every command send_message has accepted is in the channel,
\* on the wire, or in the hands of a writer that is writing it.
C5_NoCommandLost ==
    \A id \in Accepted :
        \/ id \in ChanIds
        \/ id \in WireIds
        \/ \E s \in Sessions : WriterLive(s) /\ wcmd[s] = id

\* C6: the channel never holds more than 100 commands; a send_message call
\* has not returned while it waits for the mutex or for a slot; a call that
\* finds the channel full stays suspended, and leaves that state only by
\* putting its command into a freed slot and returning Ok(Ok(())).
C6_Backpressure ==
    /\ [](Len(chan) <= 100)
    /\ [](\A p \in Producers : ppc[p] \in {"lock", "send", "full"} => sendRes[p] = "none")
    /\ [][\A p \in Producers :
            /\ (ppc[p] = "send" /\ Len(chan) = 100) => ppc'[p] \in {"send", "full"}
            /\ (ppc[p] = "full" /\ ppc'[p] # "full") =>
                   /\ Len(chan) < 100
                   /\ chan' = Append(chan, nextId)
                   /\ sendRes'[p] = "OkOk"]_vars

C6_Witness ==
    \E p \in Producers :
        sendWaited[p] /\ sendRes[p] = "OkOk" /\ ppc[p] = "idle" /\ Len(chan) = 100

\* C7 as claimed: once the session function of a session has returned, the
\* writer of that session dequeues no command and writes nothing.
C7_WriterStoppedAfterReturn ==
    [][\A s \in Sessions :
          Returned(s) => /\ ~(wpc[s] = "recv" /\ wpc'[s] = "write")
                         /\ ~WritesOn(s)]_vars

\* C8 as claimed: once start() has succeeded exactly one session is active.
C8_ExactlyOneSession ==
    (\E i \in Starts : startRes[i] = "OkOk") =>
        Cardinality({i \in Starts : spc[i] = "session"}) = 1

\* the sessions of supervising task i whose function has not returned
RunningSessions(i) ==
    {s \in Sessions : owner[s] = i /\ rpc[s] \in {"reading", "zero", "error"}}

\* C8 as amended: a supervising task has at most one session running, the one
\* it awaits, and none while it binds, accepts or dials.
C8_AtMostOneSessionPerSupervisor ==
    \A i \in Starts :
        /\ Cardinality(RunningSessions(i)) <= 1
        /\ spc[i] = "session" => RunningSessions(i) = {ssess[i]}
        /\ spc[i] # "session" => RunningSessions(i) = {}

C8_Witness ==
    \E i \in Starts :
        /\ spc[i] = "session"
        /\ ssess[i] = 2
        /\ owner[1] = i
        /\ WriterLive(1)

C10_SerialRetry ==
    /\ [](IsSerial => \A i \in Starts :
            /\ spc[i] \in {"unspawned", "loop", "reading", "sleep"}
            /\ spc[i] = "loop" => slast[i] \in {"spawn", "sleep"}
            /\ slast[i] = "sleep" => sleptSecs[i] = 3
            /\ slast[i] \in {"open_err", "read_zero", "read_err"} => spc[i] = "sleep"
            /\ spc[i] = "loop" =>
                   ENABLED start_serial_open_ok(i) /\ ENABLED start_serial_open_err(i)
            /\ spc[i] = "sleep" => ENABLED serial_sleep(i))
    /\ [][IsSerial => \A i \in Starts :
            /\ (spc[i] = "sleep" /\ spc'[i] # "sleep") =>
                   spc'[i] = "loop" /\ slast'[i] = "sleep" /\ sleptSecs'[i] = 3
            /\ (spc[i] = "loop" /\ spc'[i] # "loop") =>
                   slast'[i] \in {"open_ok", "open_err"}]_vars

C10_Witness ==
    /\ IsSerial
    /\ \E i \in Starts : spc[i] = "reading" /\ sleptSecs[i] = 3

(***************************************************************************)
(* C11: in server mode, after a client has connected and disconnected     *)
(* (zero-byte read, whatever was read before it), the manager eventually   *)
(* waits in accept again, and a connection accepted there gets a new       *)
(* session with its own reader and writer; this holds for every cycle.     *)
(***************************************************************************)
ClientDisconnected ==
    /\ IsServer
    /\ \E i \in Starts : spc[i] = "session" /\ rpc[ssess[i]] = "zero"

AcceptWaiting == \E i \in Starts : spc[i] = "accept"

AcceptGivesNewSession ==
    \A i \in Starts :
        (spc[i] = "accept" /\ spc'[i] = "session") =>
            /\ nsess' = nsess + 1
            /\ ssess'[i] = nsess'
            /\ owner'[nsess'] = i
            /\ rpc'[nsess'] = "reading"
            /\ wpc'[nsess'] = "lock"

C11_ServerReaccepts ==
    /\ ClientDisconnected ~> AcceptWaiting
    /\ [][AcceptGivesNewSession]_vars

C11_Witness ==
    /\ IsServer
    /\ nsess = 2
    /\ rpc[1] = "joined"
    /\ rpc[2] = "reading"
    /\ spc[owner[2]] = "session" /\ ssess[owner[2]] = 2

(***************************************************************************)
(* C12: a communication failure at any stage (bind, accept, dial, serial   *)
(* open, read, write) never ends the supervising task of a validated       *)
(* manager: once spawned, the task is never terminated.                    *)
(***************************************************************************)
C12_SupervisorNeverGivesUp ==
    \A i \in Starts : startRes[i] = "OkOk" => spc[i] # "dead"

(***************************************************************************)
(* C13: for every read of N > 0 bytes by a reader loop (network server,    *)
(* network client, serial) the barcode events emitted for that read are    *)
(* exactly the non-empty segments of its text split on '\r' and '\n', in   *)
(* order, each read on its own.                                            *)
(***************************************************************************)
\* the segments of each text, listed by hand
ExpectedBarcodes(text) ==
    CASE text = <<"A","B","C",CR,LF>> -> << <<"A","B","C">> >>
      [] text = <<"X",CR,LF,"Y",CR,LF>> -> << <<"X">>, <<"Y">> >>
      [] text = <<"A","B">> -> << <<"A","B">> >>

C13_EventsAreSegments ==
    lastRead.by # "none" => lastRead.events = ExpectedBarcodes(lastRead.text)

(***************************************************************************)
(* C14: a zero-byte read ends the reader without a barcode event and is    *)
(* the end of the session, not an error: the session function can return,  *)
(* it returns Ok(Ok(())), and the supervising task goes on with its loop   *)
(* (network: the top of the loop, serial: the retry sleep).                *)
(***************************************************************************)
ZeroReadStep ==
    /\ \A s \in Sessions :
           (rpc[s] = "reading" /\ rpc'[s] = "zero") => lastRead' = lastRead
    /\ \A s \in Sessions :
           rpc[s] = "zero" => rpc'[s] \in {"zero", "joined"}
    /\ \A i \in Starts :
           (spc[i] = "session" /\ rpc[ssess[i]] = "zero" /\ spc'[i] # "session") =>
               sres'[i] = "OkOk" /\ spc'[i] = "loop"
    /\ \A i \in Starts :
           (IsSerial /\ spc[i] = "reading" /\ slast'[i] = "read_zero") =>
               lastRead' = lastRead /\ sres'[i] = "OkOk" /\ spc'[i] = "sleep"

C14_ZeroReadEndsSessionCleanly ==
    /\ [](\A i \in Starts :
              (spc[i] = "session" /\ rpc[ssess[i]] = "zero") => ENABLED session_return(i))
    /\ [][ZeroReadStep]_vars

\* a serial session that read data and then zero bytes has returned Ok(Ok(()))
\* and its supervising task is in the retry sleep
C14_Witness ==
    /\ IsSerial
    /\ lastRead.by = "serial"
    /\ \E i \in Starts : slast[i] = "read_zero" /\ sres[i] = "OkOk" /\ spc[i] = "sleep"

(***************************************************************************)
(* C15: send_message returns Ok(Ok(())) in the step that puts its command  *)
(* into the channel, with or without a session and whether or not the      *)
(* command is ever written; it returns an error only when the channel is   *)
(* closed, and then the channel content is unchanged.                      *)
(***************************************************************************)
SendReturns(p) == ppc[p] \in {"send", "full"} /\ ppc'[p] = "idle"

SendStep ==
    /\ \A p \in Producers :
           SendReturns(p) =>
               \/ sendRes'[p] = "OkOk" /\ chan' = Append(chan, nextId)
               \/ sendRes'[p] = "ErrComm" /\ ReceiverDropped /\ chan' = chan
    /\ Len(chan') > Len(chan) =>
           \E p \in Producers : SendReturns(p) /\ sendRes'[p] = "OkOk"

C15_SendSucceedsOnceQueued ==
    /\ [](\A p \in Producers : sendRes[p] = "ErrComm" => ReceiverDropped)
    /\ [](\A p \in Producers :
              (ppc[p] \in {"send", "full"} /\ Len(chan) < Capacity /\ ~ReceiverDropped)
                  => ENABLED (send_message_send(p) /\ sendRes'[p] = "OkOk"))
    /\ [][SendStep]_vars

\* a call has returned success although no connection was ever established
\* and nothing was written
C15_Witness ==
    /\ nsess = 0
    /\ ~SessionActive
    /\ wire = <<>>
    /\ chan # <<>>
    /\ \E p \in Producers : sendRes[p] = "OkOk" /\ ppc[p] = "idle"

(***************************************************************************)
(* C16: a network session ends only when its reader terminates.  The step  *)
(* in which the writer stops (write error) leaves the reader and the       *)
(* supervising task where they are; the session function returns only      *)
(* after a zero-byte read or a read error; while the reader reads, the     *)
(* supervising task can neither return from the session nor bind, accept   *)
(* or dial again.                                                          *)
(***************************************************************************)
SessionEndStep ==
    /\ \A i \in Starts :
           (spc[i] = "session" /\ spc'[i] # "session") =>
               rpc[ssess[i]] \in {"zero", "error"}
    /\ \A s \in Sessions :
           (wpc[s] = "write" /\ wpc'[s] = "stopped") =>
               rpc'[s] = rpc[s] /\ spc' = spc /\ ssess' = ssess

C16_SessionEndsWithReader ==
    /\ [](\A i \in Starts :
              (spc[i] = "session" /\ rpc[ssess[i]] = "reading") =>
                  /\ ~ENABLED session_return(i)
                  /\ ~ENABLED start_network_server_bind_ok(i)
                  /\ ~ENABLED start_network_server_bind_err(i)
                  /\ ~ENABLED start_network_server_accept_ok(i)
                  /\ ~ENABLED start_network_client_connect_ok(i)
                  /\ ~ENABLED start_network_client_connect_err(i))
    /\ [][SessionEndStep]_vars

\* the writer of the running session has stopped on a write error, the
\* reader still reads and the supervising task still awaits it
C16_Witness ==
    \E i \in Starts :
        /\ spc[i] = "session"
        /\ rpc[ssess[i]] = "reading"
        /\ wpc[ssess[i]] = "stopped"

(***************************************************************************)
(* C17: the value a session returns tells how its reader ended: a session  *)
(* whose reader ended on a read error does not return the value of a       *)
(* session that ended on a zero-byte read, Ok(Ok(())).                     *)
(***************************************************************************)
ReadErrorOutcome ==
    /\ \A i \in Starts :
           (spc[i] = "session" /\ spc'[i] # "session" /\ rpc[ssess[i]] = "error") =>
               sres'[i] # "OkOk"
    /\ \A i \in Starts :
           (IsSerial /\ spc[i] = "reading" /\ slast'[i] = "read_err") =>
               sres'[i] # "OkOk"

C17_OutcomeTellsReaderEnd == [][ReadErrorOutcome]_vars

(***************************************************************************)
(* C18: a command accepted by send_message is written to the wire at most  *)
(* once over the life of the manager: no number is twice on the wire, and  *)
(* a command that is on the wire is neither in the channel any more nor    *)
(* in the hands of a writer, whatever sessions, write failures and         *)
(* cancellations there were.                                               *)
(***************************************************************************)
InFlightIds == {wcmd[s] : s \in Sessions} \ {0}

C18_WrittenAtMostOnce ==
    /\ Cardinality(WireIds) = Len(wire)
    /\ WireIds \cap ChanIds = {}
    /\ WireIds \cap InFlightIds = {}
    /\ ChanIds \cap InFlightIds = {}
    /\ \A s, u \in Sessions : (s # u /\ wcmd[s] # 0) => wcmd[s] # wcmd[u]

\* the writer of session 1 took command 1 and stopped without writing it;
\* after the reconnect the writer of session 2 has written command 2 only
C18_Witness ==
    /\ wpc[1] = "stopped"
    /\ wire = <<[sess |-> 2, id |-> 2]>>
    /\ chan = <<>>
    /\ InFlightIds = {}

(***************************************************************************)
(* C19 as claimed: once the writer of a running session has stopped on a   *)
(* write error (its reader still running), the receiver guard is released  *)
(* and, for as long as that session runs, no command leaves the channel    *)
(* and none is written: the channel only grows.                            *)
(***************************************************************************)
\* session s is running and its writer has stopped on a write error (a
\* writer is aborted only when its session returns)
WriterGone(s) ==
    /\ wpc[s] = "stopped"
    /\ rpc[s] = "reading"
    /\ \E i \in Starts : spc[i] = "session" /\ ssess[i] = s

WriteErrorReleasesGuard ==
    \A s \in Sessions : (wpc[s] = "write" /\ wpc'[s] = "stopped") => ~rxLocked'

StoppedWriterStaysOut ==
    \A s \in Sessions :
        wpc[s] = "stopped" =>
            /\ wpc'[s] = "stopped"
            /\ wcmd'[s] = 0
            /\ ~WritesOn(s)
            /\ (Len(chan') < Len(chan) =>
                    \E u \in Sessions : /\ u # s
                                        /\ wpc[u] = "recv" /\ wpc'[u] = "write"
                                        /\ wcmd'[u] = Head(chan))

SerialChannelStep ==
    IsSerial =>
        /\ Len(chan') >= Len(chan)
        /\ SubSeq(chan', 1, Len(chan)) = chan
        /\ \A p \in Producers : ppc[p] = "full" => ppc'[p] = "full"
        /\ Len(chan) = Capacity =>
               \A p \in Producers : ppc[p] # "idle" => ppc'[p] # "idle"

C20_SerialNeverConsumes ==
    /\ [](IsSerial =>
              /\ wire = <<>>
              /\ Dequeued = 0
              /\ ~rxLocked
              /\ \A s \in Sessions : wpc[s] = "none" /\ wcmd[s] = 0)
    /\ [][SerialChannelStep]_vars

\* a serial session is reading, the channel holds 100 commands and a caller
\* is suspended in send
C20_Witness ==
    /\ IsSerial
    /\ \E i \in Starts : spc[i] = "reading"
    /\ Len(chan) = Capacity
    /\ \E p \in Producers : ppc[p] = "full"

(***************************************************************************)
(* C21: a supervising task terminates in one case only, a failed accept    *)
(* in network server mode; in serial and in network client mode it never   *)
(* terminates, and each task runs the routine of its descriptor's mode     *)
(* only (the mode-mismatch error of the routines cannot occur).  A         *)
(* terminated task stays terminated and creates no session any more,       *)
(* while send_message still accepts commands as long as the channel has a  *)
(* free slot.                                                              *)
(***************************************************************************)
Terminated(i) == spc[i] = "dead"

SupervisorEndStep ==
    \A i \in Starts :
        /\ (~Terminated(i) /\ Terminated(i)') => (IsServer /\ spc[i] = "accept")
        /\ Terminated(i) =>
               /\ Terminated(i)'
               /\ ssess'[i] = 0
               /\ nsess' > nsess => owner'[nsess'] # i

InSend(p) == ppc[p] \in {"send", "full"}

ProducerStep ==
    /\ \A p \in Producers :
           (~InSend(p) /\ InSend(p)') => (ppc[p] = "lock" /\ ~senderLocked /\ senderLocked')
    /\ \A p \in Producers :
           (InSend(p) /\ InSend(p)') => nextId' = nextId
    /\ nextId' # nextId =>
           \E p \in Producers : /\ InSend(p) /\ ppc'[p] = "idle"
                                /\ chan' = Append(chan, nextId)
                                /\ ~senderLocked'

C22_ProducersSerialized ==
    /\ [](Cardinality({p \in Producers : InSend(p)}) <= 1)
    /\ [](senderLocked <=> \E p \in Producers : InSend(p))
    /\ [](\A p, q \in Producers :
              (ppc[p] = "full" /\ q # p) =>
                  /\ ppc[q] \in {"idle", "lock"}
                  /\ ~ENABLED send_message_lock(q))
    /\ [][ProducerStep]_vars

\* one producer is suspended on the full channel, the other waits for the mutex
C22_Witness ==
    /\ Len(chan) = Capacity
    /\ senderLocked
    /\ \E p, q \in Producers : ppc[p] = "full" /\ ppc[q] = "lock"

====
